---- MODULE Spec2Model ----
(***************************************************************************)
(* Negotiation session engine of the inbound carrier sales backend         *)
(* (src/backend/negotiation.py) and the /negotiate-round handler that      *)
(* calls it (src/backend/main.py, src/backend/metrics.py).                 *)
(*                                                                         *)
(* Money is counted in mills (1/1000 dollar), so that an offer can carry   *)
(* more than two decimals while round(x, 2) stays an integer operation.    *)
(* Python floats are modelled by exact arithmetic; round() is round-half-  *)
(* to-even.  The rates and offers enumerated below never land on a half    *)
(* cent after scaling, so the exact result is the float result.            *)
(* A float is a record [nan, v]: NaN is a float the engine can be handed,  *)
(* and every comparison with it is false.                                  *)
(* Identifiers are sequences of tokens, so that the session key is a real  *)
(* concatenation.  created_at (a wall-clock stamp) is left out.            *)
(***************************************************************************)
EXTENDS Integers, Sequences, FiniteSets, TLC

VARIABLES
    sessions,   \* NEGOTIATION_SESSIONS: session key -> NegotiationSession
    call,       \* the engine call that ran last: its arguments and the session it found
    ret,        \* what that call returned
    call_keys,  \* table call_keys: session_key -> [call_id, active]
    calls,      \* table calls: call_id -> Call row
    events,     \* table events, in insertion order
    http,       \* the response to the last request to /negotiate-round
    objects,    \* concurrent calls: the NegotiationSession objects, by identity
    registry,      \* concurrent calls: NEGOTIATION_SESSIONS, session key -> object
    thr,        \* concurrent calls: each thread's position and locals
    snap,       \* concurrent calls: the session stored when the calls began
    tol         \* calls of _round_tolerance and _hard_cap: the base and the results

engineVars == <<sessions, call, ret>>
httpVars == <<call_keys, calls, events, http>>
concVars == <<objects, registry, thr, snap>>
vars == <<sessions, call, ret, call_keys, calls, events, http, objects, registry, thr, snap,
          tol>>

\* ---------------------------------------------------------------- values

None == <<>>
Some(v) == <<v>>
IsSome(x) == x # <<>>
Val(x) == x[1]

Max(a, b) == IF a >= b THEN a ELSE b
Min(a, b) == IF a <= b THEN a ELSE b
Abs(a) == IF a >= 0 THEN a ELSE 0 - a

\* One cent in mills: the grid of round(x, 2).
Cent == 10

\* EPS = 1e-6 dollar = 1/EpsInv mill.
EpsInv == 1000

Num(v) == [nan |-> FALSE, v |-> v]
NaN == [nan |-> TRUE, v |-> 0]

\* abs(a - b) < EPS on floats
Near(a, b) == ~a.nan /\ ~b.nan /\ Abs(a.v - b.v) * EpsInv < 1
\* abs(a - b) >= EPS on floats
Apart(a, b) == ~a.nan /\ ~b.nan /\ Abs(a.v - b.v) * EpsInv >= 1
\* a <= b + EPS, a > b + EPS on floats
LeEps(a, b) == ~a.nan /\ ~b.nan /\ a.v * EpsInv <= b.v * EpsInv + 1
GtEps(a, b) == ~a.nan /\ ~b.nan /\ a.v * EpsInv > b.v * EpsInv + 1

\* n/d rounded to the nearest integer, ties to even (d > 0)
RoundHalfEven(n, d) ==
    LET q == n \div d
        r == n % d
    IN  IF 2 * r < d THEN q
        ELSE IF 2 * r > d THEN q + 1
        ELSE IF q % 2 = 0 THEN q ELSE q + 1

\* round(x, 2) of x = n/d mills, in mills
Round2(n, d) == RoundHalfEven(n, d * Cent) * Cent

\* ----------------------------------------------------------- negotiation.py

\* Mutant of RoundTolerance: 10% a round.
RoundToleranceSteep(base, round_number) ==
    LET r == Max(1, Min(round_number, 3))
    IN  Round2(base * (100 + 10 * r), 100)

\* Mutant of RoundTolerance: the same 5% at every round.
RoundToleranceFlat(base, round_number) == Round2(base * 105, 100)

\* _round_tolerance: round(base * (1 + 0.05 * r), 2), r clamped to 1..3
RoundTolerance(base, round_number) ==
    LET r == Max(1, Min(round_number, 3))
    IN  Round2(base * (100 + 5 * r), 100)

\* _hard_cap: round(base * 1.15, 2)
HardCap(base) == Round2(base * 115, 100)

\* _session_key: f"{session_id or 'no-session'}::{mc_number}::{load_id}"
SessionKey(mc_number, load_id, session_id) ==
    (IF session_id = None \/ Val(session_id) = <<>>
        THEN <<"no-session">> ELSE Val(session_id))
    \o <<"::">> \o mc_number \o <<"::">> \o load_id

\* NegotiationSession(...) as _get_or_create_session builds it
NewSession(mc_number, load_id, loadboard_rate, session_id) ==
    [mc_number |-> mc_number,
     load_id |-> load_id,
     loadboard_rate |-> loadboard_rate,
     session_id |-> session_id,
     round_number |-> 0,
     carrier_offers |-> <<>>,
     agreed_rate |-> None,
     status |-> "ongoing",
     last_counter_offer |-> None]

\* A submitted offer.  kind is what the guards of update_negotiation_session
\* tell apart:
\*   "none"      offer is None
\*   "text"      a str that fails the isdigit screen ("not a number")
\*   "baddigit"  a str that passes the isdigit screen and that float() rejects
\*   "float"     an int or float, or a str of digits float() parses; v is float(offer)
Missing == [kind |-> "none", v |-> NaN]
Text == [kind |-> "text", v |-> NaN]
BadDigit == [kind |-> "baddigit", v |-> NaN]
Flt(x) == [kind |-> "float", v |-> x]

\* line 125: offer is None or (not a number type and not a digit string)
NeedsNumeric(offer) == offer.kind \in {"none", "text"}

\* lines 141-143: float(offer) raises
FloatRaises(offer) == offer.kind = "baddigit"

\* x or 1
Or1(x) == IF x = 0 THEN 1 ELSE x

\* f"{x:.2f}": x printed with two decimals
Fmt2(x) == Round2(x, 1)

\* The returned payload.
Decision(s, agreed, counter, maxacc, msg, rn, status) ==
    [agreed_rate |-> agreed,
     broker_counter_offer |-> counter,
     carrier_offers |-> s.carrier_offers,
     hard_cap |-> HardCap(s.loadboard_rate),
     load_id |-> s.load_id,
     max_acceptable |-> maxacc,
     mc_number |-> s.mc_number,
     message |-> msg,
     round_number |-> rn,
     status |-> status]

\* lines 126-138: the "pending" prompt
Pending(s) ==
    [session |-> s,
     ret |-> Decision(s, None, None,
                      RoundTolerance(s.loadboard_rate, Or1(s.round_number)),
                      <<"needs_numeric_from_carrier">>, s.round_number, "pending")]

\* lines 143-156: float(offer) raised
Ignored(s) ==
    [session |-> s,
     ret |-> Decision(s, None, s.last_counter_offer,
                      RoundTolerance(s.loadboard_rate, Max(1, s.round_number)),
                      <<"Non-numeric offer ignored">>, s.round_number, s.status)]

\* Mutant of IsTerminal: only an accepted session counts as closed.
IsTerminalAcceptedOnly(s) == s.status = "accepted"

\* line 159
IsTerminal(s) == s.status \in {"accepted", "failed"}

\* lines 160-171: already terminal, return as-is
Frozen(s) ==
    [session |-> s,
     ret |-> Decision(s, s.agreed_rate,
                      IF s.status = "accepted" THEN None ELSE s.last_counter_offer,
                      RoundTolerance(s.loadboard_rate, Max(1, Or1(s.round_number))),
                      IF s.status = "accepted"
                          THEN <<"Session already accepted">> ELSE <<"Session failed">>,
                      s.round_number, s.status)]

\* Mutant of IsEcho: the echo guard is missing.
IsEchoNever(s, x) == FALSE

\* line 175: the offer is our own last counter
IsEcho(s, x) == IsSome(s.last_counter_offer) /\ Near(x, Num(Val(s.last_counter_offer)))

\* Mutant of EchoAccept: the acceptance of a counter counts as a round.
EchoAcceptBump(s) ==
    LET t == [s EXCEPT !.status = "accepted",
                       !.agreed_rate = Some(Val(s.last_counter_offer)),
                       !.round_number = s.round_number + 1]
    IN  [session |-> t,
         ret |-> Decision(t, t.agreed_rate, None,
                          RoundTolerance(t.loadboard_rate, Max(1, Or1(t.round_number))),
                          <<"Accepted at", Fmt2(Val(t.agreed_rate))>>,
                          Max(1, t.round_number), "accepted")]

\* lines 176-190: accept at the last counter, nothing appended
EchoAccept(s) ==
    LET t == [s EXCEPT !.status = "accepted",
                       !.agreed_rate = Some(Val(s.last_counter_offer))]
    IN  [session |-> t,
         ret |-> Decision(t, t.agreed_rate, None,
                          RoundTolerance(t.loadboard_rate, Max(1, Or1(t.round_number))),
                          <<"Accepted at", Fmt2(Val(t.agreed_rate))>>,
                          Max(1, t.round_number), "accepted")]

\* Mutant of IsInitialAccept: the round-0 guard is missing.
IsInitialAcceptNever(s, x) == FALSE

\* line 193: round 0 and the offer is the board rate
IsInitialAccept(s, x) == s.round_number = 0 /\ Near(x, Num(s.loadboard_rate))

\* lines 194-208: accept at base, nothing appended
InitialAccept(s) ==
    LET t == [s EXCEPT !.status = "accepted",
                       !.agreed_rate = Some(s.loadboard_rate)]
    IN  [session |-> t,
         ret |-> Decision(t, t.agreed_rate, None,
                          RoundTolerance(t.loadboard_rate, 1),
                          <<"Accepted at", Fmt2(Val(t.agreed_rate))>>,
                          1, "accepted")]

\* Mutant of AppendOfferOnce: every offer is logged.
AppendOfferAlways(offers, x) == Append(offers, x)

\* _append_offer_once: append unless the last logged offer is within EPS
AppendOfferOnce(offers, x) ==
    IF offers = <<>> \/ Apart(offers[Len(offers)], x)
        THEN Append(offers, x) ELSE offers

\* Mutant of NextRound: the increment is lost.
NextRoundStuck(round_number) == Max(1, round_number)

\* line 216: session.round_number = max(1, session.round_number + 1)
NextRound(round_number) == Max(1, round_number + 1)

\* Mutant of ToleranceAccept: the acceptance records no price.
ToleranceAcceptNoRate(s, x, r, max_acceptable) ==
    LET t == [s EXCEPT !.status = "accepted", !.last_counter_offer = None]
    IN  [session |-> t,
         ret |-> Decision(t, t.agreed_rate, None, max_acceptable,
                          <<"Accepted at", Fmt2(x.v)>>, r, "accepted")]

\* lines 222-237: within tolerance, accept at round(offer, 2)
ToleranceAccept(s, x, r, max_acceptable) ==
    LET t == [s EXCEPT !.status = "accepted",
                       !.agreed_rate = Some(Round2(x.v, 1)),
                       !.last_counter_offer = None]
    IN  [session |-> t,
         ret |-> Decision(t, t.agreed_rate, None, max_acceptable,
                          <<"Accepted at", Fmt2(Val(t.agreed_rate))>>,
                          r, "accepted")]

\* Mutant of Fail: the failure forgets the last counter.
FailClearsCounter(s, r, max_acceptable) ==
    LET t == [s EXCEPT !.status = "failed", !.agreed_rate = None,
                       !.last_counter_offer = None]
    IN  [session |-> t,
         ret |-> Decision(t, None, t.last_counter_offer, max_acceptable,
                          <<"Reached limit after three rounds.">>, r, "failed")]

\* Mutant of Fail: the session stays open at the last round.
FailStaysOpen(s, r, max_acceptable) ==
    [session |-> s,
     ret |-> Decision(s, None, s.last_counter_offer, max_acceptable,
                      <<"Reached limit after three rounds.">>, r, "failed")]

\* lines 240-255: over tolerance at the last round
Fail(s, r, max_acceptable) ==
    LET t == [s EXCEPT !.status = "failed", !.agreed_rate = None]
    IN  [session |-> t,
         ret |-> Decision(t, None, t.last_counter_offer, max_acceptable,
                          <<"Reached limit after three rounds.">>, r, "failed")]

\* lines 257-272: counter at the round's ceiling
Counter(s, r, max_acceptable) ==
    LET t == [s EXCEPT !.last_counter_offer = Some(max_acceptable)]
    IN  [session |-> t,
         ret |-> Decision(t, None, Some(max_acceptable), max_acceptable,
                          <<"Carrier offer too high. Broker countered with",
                            Fmt2(max_acceptable)>>,
                          r, "ongoing")]

\* lines 210-272: a real carrier number
NewOffer(s, x) ==
    LET s1 == [s EXCEPT !.carrier_offers = AppendOfferOnce(s.carrier_offers, x)]
        s2 == [s1 EXCEPT !.round_number = NextRound(s1.round_number)]
        r == Max(1, Min(s2.round_number, 3))
        max_acceptable == RoundTolerance(s2.loadboard_rate, r)
    IN  IF LeEps(x, Num(max_acceptable)) THEN ToleranceAccept(s2, x, r, max_acceptable)
        ELSE IF r >= 3 /\ GtEps(x, Num(max_acceptable)) THEN Fail(s2, r, max_acceptable)
        ELSE Counter(s2, r, max_acceptable)

\* lines 123-272: update_negotiation_session on the session it got or created
Negotiate(s, offer) ==
    IF NeedsNumeric(offer) THEN Pending(s)
    ELSE IF FloatRaises(offer) THEN Ignored(s)
    ELSE IF IsTerminal(s) THEN Frozen(s)
    ELSE IF IsEcho(s, offer.v) THEN EchoAccept(s)
    ELSE IF IsInitialAccept(s, offer.v) THEN InitialAccept(s)
    ELSE NewOffer(s, offer.v)

\* ------------------------------------------------------------ the engine

\* Cap on the rounds in play: NaN offers are countered for ever, so round_number
\* is unbounded.  No session goes beyond MaxRound, and no two stored sessions
\* hold more than MaxRound rounds together.
MaxRound == 4

SessionIds == {None, Some(<<"s1">>)}
McNumbers == {<<"MC1">>}
LoadIds == {<<"L1">>}
\* Board rates 1000.00 and 1300.00; offers 1000.00, 1050.00, 1100.00 and 1300.004.
Rates == {1000000, 1300000}
Offers == {Missing, Text, BadDigit, Flt(NaN),
           Flt(Num(1000000)), Flt(Num(1050000)), Flt(Num(1100000)),
           Flt(Num(1300004))}

NoDecision ==
    [agreed_rate |-> None, broker_counter_offer |-> None, carrier_offers |-> <<>>,
     hard_cap |-> 0, load_id |-> <<>>, max_acceptable |-> 0, mc_number |-> <<>>,
     message |-> <<>>, round_number |-> 0, status |-> "none"]

NoCall ==
    [op |-> "init", key |-> <<>>, offer |-> Missing, loadboard_rate |-> 0, pre |-> None,
     mc_number |-> <<>>, load_id |-> <<>>, session_id |-> None]

NoRequest == [status |-> 0, call_id |-> 0, body |-> NoDecision]

\* No call of _round_tolerance or _hard_cap made yet.
NoTolerance == [base |-> 0, max_acceptable |-> <<>>, hard_cap |-> None]

\* No concurrent call in progress.
NoThreads ==
    /\ objects = <<>>
    /\ registry = <<>>
    /\ thr = <<>>
    /\ snap = None

\* Module load: empty session map, empty tables.
InitTables ==
    /\ sessions = <<>>
    /\ call = NoCall
    /\ ret = NoDecision
    /\ call_keys = <<>>
    /\ calls = <<>>
    /\ events = <<>>
    /\ http = NoRequest

Init ==
    /\ InitTables
    /\ NoThreads
    /\ tol = NoTolerance

\* NEGOTIATION_SESSIONS.get(key)
Lookup(map, key) == IF key \in DOMAIN map THEN Some(map[key]) ELSE None

\* NEGOTIATION_SESSIONS[key] = sess
Store(map, key, sess) ==
    [k \in DOMAIN map \cup {key} |-> IF k = key THEN sess ELSE map[k]]

\* Mutant of GetOrCreateSession: the rate passed is applied to a stored session.
GetOrCreateSessionReapply(map, mc_number, load_id, loadboard_rate, session_id) ==
    LET key == SessionKey(mc_number, load_id, session_id)
    IN  IF IsSome(Lookup(map, key))
            THEN [map EXCEPT ![key].loadboard_rate = loadboard_rate]
            ELSE Store(map, key, NewSession(mc_number, load_id, loadboard_rate, session_id))

\* _get_or_create_session: the map after it
GetOrCreateSession(map, mc_number, load_id, loadboard_rate, session_id) ==
    LET key == SessionKey(mc_number, load_id, session_id)
    IN  IF IsSome(Lookup(map, key)) THEN map
        ELSE Store(map, key, NewSession(mc_number, load_id, loadboard_rate, session_id))

\* update_negotiation_session(load_id, mc_number, offer, loadboard_rate, session_id)
UpdateNegotiationSession(load_id, mc_number, offer, loadboard_rate, session_id) ==
    \E key \in {SessionKey(mc_number, load_id, session_id)} :
    \E map \in {GetOrCreateSession(sessions, mc_number, load_id, loadboard_rate, session_id)} :
    \E res \in {Negotiate(map[key], offer)} :
        /\ res.session.round_number <= MaxRound
        /\ \A k \in DOMAIN sessions \ {key} :
              sessions[k].round_number + res.session.round_number <= MaxRound
        /\ sessions' = Store(map, key, res.session)
        /\ ret' = res.ret
        /\ call' = [op |-> "update", key |-> key, offer |-> offer,
                    loadboard_rate |-> loadboard_rate, pre |-> Lookup(sessions, key),
                    mc_number |-> mc_number, load_id |-> load_id,
                    session_id |-> session_id]

\* Mutant of Pop: the whole map is dropped.
PopAll(map, key) == <<>>

\* NEGOTIATION_SESSIONS.pop(key, None)
Pop(map, key) == [k \in DOMAIN map \ {key} |-> map[k]]

\* reset_session(mc_number, load_id, session_id)
ResetSession(mc_number, load_id, session_id) ==
    \E key \in {SessionKey(mc_number, load_id, session_id)} :
        /\ sessions' = Pop(sessions, key)
        /\ ret' = NoDecision
        /\ call' = [op |-> "reset", key |-> key, offer |-> Missing,
                    loadboard_rate |-> 0, pre |-> Lookup(sessions, key),
                    mc_number |-> mc_number, load_id |-> load_id,
                    session_id |-> session_id]

Update ==
    \E load_id \in LoadIds, mc_number \in McNumbers, session_id \in SessionIds,
       offer \in Offers, loadboard_rate \in Rates :
        /\ UpdateNegotiationSession(load_id, mc_number, offer, loadboard_rate, session_id)
        /\ UNCHANGED <<httpVars, concVars, tol>>

Reset ==
    \E load_id \in LoadIds, mc_number \in McNumbers, session_id \in SessionIds :
        /\ ResetSession(mc_number, load_id, session_id)
        /\ UNCHANGED <<httpVars, concVars, tol>>

Next == Update \/ Reset

Spec == Init /\ [][Next]_vars

\* --------------------------------------------- the engine, finite offers

\* The offers of the engine that are not the float NaN.
FiniteOffers == {offer \in Offers : ~(offer.kind = "float" /\ offer.v.nan)}

UpdateFinite ==
    \E load_id \in LoadIds, mc_number \in McNumbers, session_id \in SessionIds,
       offer \in FiniteOffers, loadboard_rate \in Rates :
        /\ UpdateNegotiationSession(load_id, mc_number, offer, loadboard_rate, session_id)
        /\ UNCHANGED <<httpVars, concVars, tol>>

NextFinite == UpdateFinite \/ Reset

SpecFinite == Init /\ [][NextFinite]_vars

\* --------------------------------------------- the engine, by session_id

\* The engine called under every kind of session_id: absent, the empty string,
\* the literal "no-session" and an ordinary one.
KeySessionIds == {None, Some(<<>>), Some(<<"no-session">>), Some(<<"s1">>)}
KeyRates == {1000000}
KeyOffers == {Missing, Flt(Num(1000000)), Flt(Num(1300004))}

UpdateByKey ==
    \E load_id \in LoadIds, mc_number \in McNumbers, session_id \in KeySessionIds,
       offer \in KeyOffers, loadboard_rate \in KeyRates :
        /\ UpdateNegotiationSession(load_id, mc_number, offer, loadboard_rate, session_id)
        /\ UNCHANGED <<httpVars, concVars, tol>>

ResetByKey ==
    \E load_id \in LoadIds, mc_number \in McNumbers, session_id \in KeySessionIds :
        /\ ResetSession(mc_number, load_id, session_id)
        /\ UNCHANGED <<httpVars, concVars, tol>>

NextKeys == UpdateByKey \/ ResetByKey

SpecKeys == Init /\ [][NextKeys]_vars

\* --------------------------------------- the engine, by identity triple

\* Identity triples (session_id, mc_number, load_id): an absent, an empty and a
\* literal "no-session" session_id for one carrier and load, and identifiers
\* that hold the "::" separator, "s1" with "MC1::MC1" and "s1::MC1" with "MC1".
Triples ==
    {<<None, <<"MC1">>, <<"L1">>>>,
     <<Some(<<>>), <<"MC1">>, <<"L1">>>>,
     <<Some(<<"no-session">>), <<"MC1">>, <<"L1">>>>,
     <<Some(<<"s1">>), <<"MC1", "::", "MC1">>, <<"L1">>>>,
     <<Some(<<"s1", "::", "MC1">>), <<"MC1">>, <<"L1">>>>}
TripleOffers == {Flt(Num(1000000)), Flt(Num(1300004))}

UpdateByTriple ==
    \E triple \in Triples, offer \in TripleOffers :
        /\ UpdateNegotiationSession(triple[3], triple[2], offer, 1000000, triple[1])
        /\ UNCHANGED <<httpVars, concVars, tol>>

ResetByTriple ==
    \E triple \in Triples :
        /\ ResetSession(triple[2], triple[3], triple[1])
        /\ UNCHANGED <<httpVars, concVars, tol>>

NextTriples == UpdateByTriple \/ ResetByTriple

SpecTriples == Init /\ [][NextTriples]_vars

\* ------------------------------------------- the engine, at rates of cents

\* Reference rates 0.012, 0.04 and 1000.00; offers NaN, 0.012, 0.04, 0.05,
\* 1000.00 and 1300.004.  No product base * (1 + 0.05 * r) is a half cent.
CentRates == {12, 40, 1000000}
CentOffers == {Flt(NaN), Flt(Num(12)), Flt(Num(40)), Flt(Num(50)),
               Flt(Num(1000000)), Flt(Num(1300004))}

UpdateCents ==
    \E load_id \in LoadIds, mc_number \in McNumbers,
       offer \in CentOffers, loadboard_rate \in CentRates :
        /\ UpdateNegotiationSession(load_id, mc_number, offer, loadboard_rate, None)
        /\ UNCHANGED <<httpVars, concVars, tol>>

ResetCents ==
    \E load_id \in LoadIds, mc_number \in McNumbers :
        /\ ResetSession(mc_number, load_id, None)
        /\ UNCHANGED <<httpVars, concVars, tol>>

NextCents == UpdateCents \/ ResetCents

SpecCents == Init /\ [][NextCents]_vars

\* ------------------------------------------- _round_tolerance and _hard_cap

\* Largest round_number passed to _round_tolerance (the clamp starts above 3).
MaxArg == 4

\* Reference rates in mills, from one cent up: 0.01, 0.012, 0.04, 0.16, 0.20,
\* 0.21, 1.00, 1000.00 and 1300.00.  For each of them base * (1 + 0.05 * r) is
\* no half cent, and round() of the float product is the rounding of the exact
\* product.
TolRates == {10, 12, 40, 160, 200, 210, 1000, 1000000, 1300000}

InitTol ==
    /\ InitTables
    /\ NoThreads
    /\ tol \in [base : TolRates, max_acceptable : {<<>>}, hard_cap : {None}]

\* _round_tolerance(base, round_number), its result kept by argument
RoundToleranceCall ==
    \E round_number \in 0..MaxArg :
        /\ round_number \notin DOMAIN tol.max_acceptable
        /\ tol' = [tol EXCEPT !.max_acceptable =
                      Store(@, round_number, RoundTolerance(tol.base, round_number))]
        /\ UNCHANGED <<engineVars, httpVars, concVars>>

\* _hard_cap(base)
HardCapCall ==
    /\ tol' = [tol EXCEPT !.hard_cap = Some(HardCap(tol.base))]
    /\ UNCHANGED <<engineVars, httpVars, concVars>>

NextTol == RoundToleranceCall \/ HardCapCall

SpecTol == InitTol /\ [][NextTol]_vars

\* ------------------------------------------- the /negotiate-round handler

\* Cap on the rows of the events table, one per request served.
MaxEvents == 3

\* load_data.get_load_by_id over data/loads.json: load_id -> loadboard_rate,
\* None for a load the catalog does not hold.
GetLoadById(load_id) ==
    IF load_id = <<"L1">> THEN Some([load_id |-> load_id, loadboard_rate |-> 1000000])
    ELSE None

\* metrics.POSSIBLE_SESSION_HEADERS, in the order they are tried
PossibleSessionHeaders ==
    <<"X-HR-Call-ID", "X-HR-Conversation-ID", "X-HR-Session-ID",
      "X-Conversation-ID", "X-Session-ID">>

\* request.headers.get(h), "" when the header is absent (both are falsy)
Header(request, h) ==
    IF h \in DOMAIN request.headers THEN request.headers[h] ELSE ""

\* metrics.derive_session_key
DeriveSessionKey(request, mc_number) ==
    LET present == {i \in DOMAIN PossibleSessionHeaders :
                        Header(request, PossibleSessionHeaders[i]) # ""}
        first == CHOOSE i \in present : \A j \in present : i <= j
    IN  IF present # {}
            THEN <<"hdr:", PossibleSessionHeaders[first], ":",
                   Header(request, PossibleSessionHeaders[first])>>
        ELSE IF mc_number # <<>> THEN <<"mc:">> \o mc_number
        ELSE <<"ip:", IF Header(request, "X-Forwarded-For") # ""
                         THEN Header(request, "X-Forwarded-For")
                         ELSE request.client_host>>

\* str(uuid.uuid4()): an id no row of calls has
NewCallId(table) == Cardinality(DOMAIN table) + 1

\* metrics.ensure_call: the calls table after it
EnsureCall(table, call_id, mc_number) ==
    IF call_id \in DOMAIN table
        THEN IF mc_number # <<>> /\ table[call_id].mc_number = <<>>
                THEN [table EXCEPT ![call_id].mc_number = mc_number]
                ELSE table
        ELSE [c \in DOMAIN table \cup {call_id} |->
                IF c = call_id
                    THEN [mc_number |-> mc_number, load_id |-> <<>>, agreed_rate |-> None,
                          outcome |-> None, ended |-> FALSE]
                    ELSE table[c]]

\* metrics.get_or_create_call_id_for_session: [call_id, call_keys, calls] after it
GetOrCreateCallIdForSession(request, mc_number) ==
    LET sk == DeriveSessionKey(request, mc_number)
        cid == NewCallId(calls)
    IN  IF sk \in DOMAIN call_keys /\ call_keys[sk].active
            THEN [call_id |-> call_keys[sk].call_id, call_keys |-> call_keys, calls |-> calls]
            ELSE [call_id |-> cid,
                  call_keys |-> [k \in DOMAIN call_keys \cup {sk} |->
                                    IF k = sk THEN [call_id |-> cid, active |-> TRUE]
                                    ELSE call_keys[k]],
                  calls |-> EnsureCall(calls, cid, mc_number)]

\* metrics.log_event: the row it inserts
Event(call_id, event_type, payload) ==
    [call_id |-> call_id, event_type |-> event_type, ok |-> TRUE, payload |-> payload]

\* metrics.close_call
CloseCall(table, call_id, outcome, agreed_rate, load_id, mc_number) ==
    LET t == EnsureCall(table, call_id, mc_number)
    IN  [t EXCEPT ![call_id] =
            [@ EXCEPT !.ended = TRUE,
                      !.outcome = IF outcome # "" THEN Some(outcome) ELSE @,
                      !.agreed_rate = IF IsSome(agreed_rate) THEN agreed_rate ELSE @,
                      !.load_id = IF load_id # <<>> THEN load_id ELSE @]]

\* metrics.deactivate_mappings_for_call
DeactivateMappingsForCall(keys, call_id) ==
    [k \in DOMAIN keys |->
        IF keys[k].call_id = call_id /\ keys[k].active
            THEN [keys[k] EXCEPT !.active = FALSE] ELSE keys[k]]

\* A handler that takes no decision for a failure.
FailedTerminalNever(result) == FALSE

\* main.negotiate_round, lines 104-133: what a decision does to the call
FailedTerminal(result) == result.status \in {"rejected", "failed", "declined", "no_deal"}

\* main.negotiate_round for a load the catalog does not hold: 404
NegotiateRoundNotFound(request) ==
    /\ GetLoadById(request.load_id) = None
    /\ http' = [status |-> 404, call_id |-> 0, body |-> NoDecision]
    /\ UNCHANGED <<sessions, call, ret, call_keys, calls, events, concVars, tol>>

\* main.negotiate_round for a load of the catalog
NegotiateRoundFound(request) ==
    /\ GetLoadById(request.load_id) # None
    /\ Len(events) < MaxEvents
    /\ \E load \in {Val(GetLoadById(request.load_id))} :
       \E got \in {GetOrCreateCallIdForSession(request, request.mc_number)} :
          /\ UpdateNegotiationSession(request.load_id, request.mc_number,
                                      Flt(request.carrier_offer), load.loadboard_rate, None)
          /\ events' = Append(events,
                 Event(got.call_id, "nego.round",
                       [load_id |-> request.load_id, mc_number |-> request.mc_number,
                        carrier_offer |-> request.carrier_offer,
                        loadboard_rate |-> load.loadboard_rate, result |-> ret']))
          /\ \E logged \in {EnsureCall(got.calls, got.call_id, request.mc_number)} :
                IF ret'.status = "accepted" THEN
                    /\ calls' = CloseCall(logged, got.call_id, "accepted", ret'.agreed_rate,
                                          request.load_id, request.mc_number)
                    /\ call_keys' = DeactivateMappingsForCall(got.call_keys, got.call_id)
                ELSE IF FailedTerminal(ret') THEN
                    /\ calls' = CloseCall(logged, got.call_id, "unbooked", None,
                                          request.load_id, request.mc_number)
                    /\ call_keys' = DeactivateMappingsForCall(got.call_keys, got.call_id)
                ELSE
                    /\ calls' = logged
                    /\ call_keys' = got.call_keys
          /\ http' = [status |-> 200, call_id |-> got.call_id, body |-> ret']
    /\ UNCHANGED <<concVars, tol>>

\* The requests tried: no session header, one of two session headers; a load of
\* the catalog or an unknown one; a float offer (the body is validated as float).
Requests ==
    [headers : {<<>>, "X-HR-Call-ID" :> "c1", "X-Session-ID" :> "c2"},
     client_host : {"10.0.0.1"},
     load_id : {<<"L1">>, <<"L9">>},
     mc_number : {<<"MC1">>},
     carrier_offer : {NaN, Num(1000000), Num(1050000), Num(1300004)}]

NotFound == \E request \in Requests : NegotiateRoundNotFound(request)

Found == \E request \in Requests : NegotiateRoundFound(request)

NextHTTP == NotFound \/ Found

SpecHTTP == Init /\ [][NextHTTP]_vars

\* ------------------------------- concurrent calls of the engine on one key
\* The handler is a sync def: the server runs requests on a thread pool, and the
\* engine takes no lock.  Each thread runs one update_negotiation_session for
\* the same key; a step is one statement that reads or writes the shared
\* session, and line 216 (a read, a call to max, a write) is two steps.

Threads == {1, 2}

\* Cap on the sequential calls that built the session the threads find.
MaxPrelude == 2

ConcMc == <<"MC1">>
ConcLoad == <<"L1">>
ConcKey == SessionKey(ConcMc, ConcLoad, None)
ConcRate == Val(GetLoadById(ConcLoad)).loadboard_rate
ThreadOffers == {Missing, Flt(Num(1000000)), Flt(Num(1050000)), Flt(Num(1300004))}
PreludeOffers == {Flt(Num(1000000)), Flt(Num(1300004))}

\* The sessions sequential calls can have left under the key, None for no session.
RECURSIVE After(_, _)
After(s, offs) ==
    IF offs = <<>> THEN s ELSE After(Negotiate(s, Head(offs)).session, Tail(offs))

StartSessions ==
    {None} \cup
    {Some(After(NewSession(ConcMc, ConcLoad, ConcRate, None), offs)) :
        offs \in UNION {[1..n -> PreludeOffers] : n \in 1..MaxPrelude}}

\* An uncaught exception (a TypeError on a field another thread set to None).
Raised == [NoDecision EXCEPT !.status = "raised"]

\* A thread at the first statement of its call: pc "get" for
\* update_negotiation_session(ConcLoad, ConcMc, offer, ConcRate, session_id),
\* pc "pop" for reset_session(ConcMc, ConcLoad, session_id).
Thread(pc, offer, session_id) ==
    [pc |-> pc, offer |-> offer, session_id |-> session_id, sess |-> 0, x |-> NaN,
     rn |-> 0, r |-> 0, max_acceptable |-> 0, ret |-> NoDecision]

InitConc ==
    /\ InitTables
    /\ snap \in StartSessions
    /\ objects = IF snap = None THEN <<>> ELSE <<Val(snap)>>
    /\ registry = IF snap = None THEN <<>> ELSE [k \in {ConcKey} |-> 1]
    /\ thr \in [Threads -> {Thread("get", offer, None) : offer \in ThreadOffers}]
    /\ tol = NoTolerance

\* The key of the call thread t runs.
ThreadKey(t) == SessionKey(ConcMc, ConcLoad, thr[t].session_id)
Obj(t) == objects[thr[t].sess]
Goto(t, pc) == thr' = [thr EXCEPT ![t].pc = pc]
Return(t, decision) == thr' = [thr EXCEPT ![t].pc = "done", ![t].ret = decision]
Quiet == UNCHANGED <<engineVars, httpVars, snap, tol>>

\* line 39: sess = NEGOTIATION_SESSIONS.get(key)
Get(t) ==
    /\ thr[t].pc = "get"
    /\ IF ThreadKey(t) \in DOMAIN registry
          THEN thr' = [thr EXCEPT ![t].pc = "guard", ![t].sess = registry[ThreadKey(t)]]
          ELSE Goto(t, "create")
    /\ UNCHANGED <<objects, registry>> /\ Quiet

\* A creation that drops the sessions of the other keys.
CreateAlone(t) ==
    /\ thr[t].pc = "create"
    /\ objects' = Append(objects, NewSession(ConcMc, ConcLoad, ConcRate, thr[t].session_id))
    /\ registry' = [k \in {ThreadKey(t)} |-> Len(objects) + 1]
    /\ thr' = [thr EXCEPT ![t].pc = "guard", ![t].sess = Len(objects) + 1]
    /\ Quiet

\* lines 41-47: build a session and store it under the key
Create(t) ==
    /\ thr[t].pc = "create"
    /\ objects' = Append(objects, NewSession(ConcMc, ConcLoad, ConcRate, thr[t].session_id))
    /\ registry' = Store(registry, ThreadKey(t), Len(objects) + 1)
    /\ thr' = [thr EXCEPT ![t].pc = "guard", ![t].sess = Len(objects) + 1]
    /\ Quiet

\* lines 125-156: the non-numeric returns, else offer = float(offer)
Guard(t) ==
    /\ thr[t].pc = "guard"
    /\ IF NeedsNumeric(thr[t].offer) THEN Return(t, Pending(Obj(t)).ret)
       ELSE IF FloatRaises(thr[t].offer) THEN Return(t, Ignored(Obj(t)).ret)
       ELSE thr' = [thr EXCEPT ![t].pc = "terminal", ![t].x = thr[t].offer.v]
    /\ UNCHANGED <<objects, registry>> /\ Quiet

\* lines 159-171
Terminal(t) ==
    /\ thr[t].pc = "terminal"
    /\ IF IsTerminal(Obj(t)) THEN Return(t, Frozen(Obj(t)).ret) ELSE Goto(t, "echo")
    /\ UNCHANGED <<objects, registry>> /\ Quiet

\* line 175
Echo(t) ==
    /\ thr[t].pc = "echo"
    /\ IF IsEcho(Obj(t), thr[t].x) THEN Goto(t, "echo_status") ELSE Goto(t, "initial")
    /\ UNCHANGED <<objects, registry>> /\ Quiet

\* line 176
EchoStatus(t) ==
    /\ thr[t].pc = "echo_status"
    /\ objects' = [objects EXCEPT ![thr[t].sess].status = "accepted"]
    /\ Goto(t, "echo_agreed")
    /\ UNCHANGED registry /\ Quiet

\* line 177: float(session.last_counter_offer) raises on None
EchoAgreed(t) ==
    /\ thr[t].pc = "echo_agreed"
    /\ IF IsSome(Obj(t).last_counter_offer)
          THEN /\ objects' = [objects EXCEPT
                                 ![thr[t].sess].agreed_rate = Obj(t).last_counter_offer]
               /\ Goto(t, "echo_ret")
          ELSE /\ Return(t, Raised)
               /\ UNCHANGED objects
    /\ UNCHANGED registry /\ Quiet

\* lines 179-190: f"{session.agreed_rate:.2f}" raises on None
EchoRet(t) ==
    /\ thr[t].pc = "echo_ret"
    /\ IF IsSome(Obj(t).agreed_rate)
          THEN Return(t, Decision(Obj(t), Obj(t).agreed_rate, None,
                           RoundTolerance(Obj(t).loadboard_rate,
                                          Max(1, Or1(Obj(t).round_number))),
                           <<"Accepted at", Fmt2(Val(Obj(t).agreed_rate))>>,
                           Max(1, Obj(t).round_number), "accepted"))
          ELSE Return(t, Raised)
    /\ UNCHANGED <<objects, registry>> /\ Quiet

\* line 193
Initial(t) ==
    /\ thr[t].pc = "initial"
    /\ IF IsInitialAccept(Obj(t), thr[t].x)
          THEN Goto(t, "initial_status") ELSE Goto(t, "append_check")
    /\ UNCHANGED <<objects, registry>> /\ Quiet

\* line 194
InitialStatus(t) ==
    /\ thr[t].pc = "initial_status"
    /\ objects' = [objects EXCEPT ![thr[t].sess].status = "accepted"]
    /\ Goto(t, "initial_agreed")
    /\ UNCHANGED registry /\ Quiet

\* line 195
InitialAgreed(t) ==
    /\ thr[t].pc = "initial_agreed"
    /\ objects' = [objects EXCEPT ![thr[t].sess].agreed_rate = Some(Obj(t).loadboard_rate)]
    /\ Goto(t, "initial_ret")
    /\ UNCHANGED registry /\ Quiet

\* lines 197-208
InitialRet(t) ==
    /\ thr[t].pc = "initial_ret"
    /\ IF IsSome(Obj(t).agreed_rate)
          THEN Return(t, Decision(Obj(t), Obj(t).agreed_rate, None,
                           RoundTolerance(Obj(t).loadboard_rate, 1),
                           <<"Accepted at", Fmt2(Val(Obj(t).agreed_rate))>>,
                           1, "accepted"))
          ELSE Return(t, Raised)
    /\ UNCHANGED <<objects, registry>> /\ Quiet

\* line 61: the test of _append_offer_once
AppendCheck(t) ==
    /\ thr[t].pc = "append_check"
    /\ IF AppendOfferOnce(Obj(t).carrier_offers, thr[t].x) # Obj(t).carrier_offers
          THEN Goto(t, "append") ELSE Goto(t, "load_round")
    /\ UNCHANGED <<objects, registry>> /\ Quiet

\* line 62: session.carrier_offers.append(x)
AppendOffer(t) ==
    /\ thr[t].pc = "append"
    /\ objects' = [objects EXCEPT
                      ![thr[t].sess].carrier_offers = Append(@, thr[t].x)]
    /\ Goto(t, "load_round")
    /\ UNCHANGED registry /\ Quiet

\* line 216, the read of session.round_number
LoadRound(t) ==
    /\ thr[t].pc = "load_round"
    /\ thr' = [thr EXCEPT ![t].pc = "store_round", ![t].rn = Obj(t).round_number]
    /\ UNCHANGED <<objects, registry>> /\ Quiet

\* line 216, the write of session.round_number
StoreRound(t) ==
    /\ thr[t].pc = "store_round"
    /\ objects' = [objects EXCEPT ![thr[t].sess].round_number = NextRound(thr[t].rn)]
    /\ Goto(t, "tolerance")
    /\ UNCHANGED registry /\ Quiet

\* lines 217-240: r from the stored round, the ceiling, and the branch taken
Tolerance(t) ==
    /\ thr[t].pc = "tolerance"
    /\ \E r \in {Max(1, Min(Obj(t).round_number, 3))} :
       \E max_acceptable \in {RoundTolerance(Obj(t).loadboard_rate, r)} :
          thr' = [thr EXCEPT
                    ![t].r = r,
                    ![t].max_acceptable = max_acceptable,
                    ![t].pc = IF LeEps(thr[t].x, Num(max_acceptable)) THEN "accept_status"
                              ELSE IF r >= 3 /\ GtEps(thr[t].x, Num(max_acceptable))
                                  THEN "fail_status"
                              ELSE "counter"]
    /\ UNCHANGED <<objects, registry>> /\ Quiet

\* line 223
AcceptStatus(t) ==
    /\ thr[t].pc = "accept_status"
    /\ objects' = [objects EXCEPT ![thr[t].sess].status = "accepted"]
    /\ Goto(t, "accept_agreed")
    /\ UNCHANGED registry /\ Quiet

\* line 224
AcceptAgreed(t) ==
    /\ thr[t].pc = "accept_agreed"
    /\ objects' = [objects EXCEPT ![thr[t].sess].agreed_rate = Some(Round2(thr[t].x.v, 1))]
    /\ Goto(t, "accept_counter")
    /\ UNCHANGED registry /\ Quiet

\* line 225
AcceptCounter(t) ==
    /\ thr[t].pc = "accept_counter"
    /\ objects' = [objects EXCEPT ![thr[t].sess].last_counter_offer = None]
    /\ Goto(t, "accept_ret")
    /\ UNCHANGED registry /\ Quiet

\* lines 226-237
AcceptRet(t) ==
    /\ thr[t].pc = "accept_ret"
    /\ IF IsSome(Obj(t).agreed_rate)
          THEN Return(t, Decision(Obj(t), Obj(t).agreed_rate, None, thr[t].max_acceptable,
                           <<"Accepted at", Fmt2(Val(Obj(t).agreed_rate))>>,
                           thr[t].r, "accepted"))
          ELSE Return(t, Raised)
    /\ UNCHANGED <<objects, registry>> /\ Quiet

\* line 241
FailStatus(t) ==
    /\ thr[t].pc = "fail_status"
    /\ objects' = [objects EXCEPT ![thr[t].sess].status = "failed"]
    /\ Goto(t, "fail_agreed")
    /\ UNCHANGED registry /\ Quiet

\* line 242
FailAgreed(t) ==
    /\ thr[t].pc = "fail_agreed"
    /\ objects' = [objects EXCEPT ![thr[t].sess].agreed_rate = None]
    /\ Goto(t, "fail_ret")
    /\ UNCHANGED registry /\ Quiet

\* lines 244-255
FailRet(t) ==
    /\ thr[t].pc = "fail_ret"
    /\ Return(t, Decision(Obj(t), None, Obj(t).last_counter_offer, thr[t].max_acceptable,
                          <<"Reached limit after three rounds.">>, thr[t].r, "failed"))
    /\ UNCHANGED <<objects, registry>> /\ Quiet

\* lines 258-259
CounterStore(t) ==
    /\ thr[t].pc = "counter"
    /\ objects' = [objects EXCEPT
                      ![thr[t].sess].last_counter_offer = Some(thr[t].max_acceptable)]
    /\ Goto(t, "counter_ret")
    /\ UNCHANGED registry /\ Quiet

\* lines 261-272
CounterRet(t) ==
    /\ thr[t].pc = "counter_ret"
    /\ Return(t, Decision(Obj(t), None, Some(thr[t].max_acceptable), thr[t].max_acceptable,
                          <<"Carrier offer too high. Broker countered with",
                            Fmt2(thr[t].max_acceptable)>>,
                          thr[t].r, "ongoing"))
    /\ UNCHANGED <<objects, registry>> /\ Quiet

NextConc ==
    \E t \in Threads :
        \/ Get(t) \/ Create(t) \/ Guard(t) \/ Terminal(t)
        \/ Echo(t) \/ EchoStatus(t) \/ EchoAgreed(t) \/ EchoRet(t)
        \/ Initial(t) \/ InitialStatus(t) \/ InitialAgreed(t) \/ InitialRet(t)
        \/ AppendCheck(t) \/ AppendOffer(t) \/ LoadRound(t) \/ StoreRound(t)
        \/ Tolerance(t)
        \/ AcceptStatus(t) \/ AcceptAgreed(t) \/ AcceptCounter(t) \/ AcceptRet(t)
        \/ FailStatus(t) \/ FailAgreed(t) \/ FailRet(t)
        \/ CounterStore(t) \/ CounterRet(t)

SpecConc == InitConc /\ [][NextConc]_vars

\* ------------------------- concurrent calls of the engine on two keys
\* Thread 1 works on the key with no session_id, thread 2 on the key of session
\* "s1"; each runs one update_negotiation_session or one reset_session.

OtherSessionId == Some(<<"s1">>)
OtherKey == SessionKey(ConcMc, ConcLoad, OtherSessionId)

\* What thread 2 finds under its key: nothing, or a session countered once.
OtherStartSessions ==
    {None,
     Some(After(NewSession(ConcMc, ConcLoad, ConcRate, OtherSessionId),
                <<Flt(Num(1300004))>>))}
OtherOffers == {Flt(Num(1000000)), Flt(Num(1050000))}

\* The calls a thread can run: an update per offer, or a reset.
Calls(offers, session_id) ==
    {Thread("get", offer, session_id) : offer \in offers}
        \cup {Thread("pop", Missing, session_id)}

InitConcKeys ==
    /\ InitTables
    /\ snap = None
    /\ \E first \in StartSessions, second \in OtherStartSessions :
          /\ objects = (IF first = None THEN <<>> ELSE <<Val(first)>>)
                           \o (IF second = None THEN <<>> ELSE <<Val(second)>>)
          /\ registry = [k \in (IF first = None THEN {} ELSE {ConcKey})
                                  \cup (IF second = None THEN {} ELSE {OtherKey}) |->
                            IF k = ConcKey THEN 1 ELSE Len(objects)]
    /\ \E one \in Calls(ThreadOffers, None), two \in Calls(OtherOffers, OtherSessionId) :
          thr = [t \in Threads |-> IF t = 1 THEN one ELSE two]
    /\ tol = NoTolerance

\* line 278: NEGOTIATION_SESSIONS.pop(key, None)
PopKey(t) ==
    /\ thr[t].pc = "pop"
    /\ registry' = Pop(registry, ThreadKey(t))
    /\ Goto(t, "done")
    /\ UNCHANGED objects /\ Quiet

NextConcKeys ==
    \E t \in Threads :
        \/ Get(t) \/ Create(t) \/ Guard(t) \/ Terminal(t)
        \/ Echo(t) \/ EchoStatus(t) \/ EchoAgreed(t) \/ EchoRet(t)
        \/ Initial(t) \/ InitialStatus(t) \/ InitialAgreed(t) \/ InitialRet(t)
        \/ AppendCheck(t) \/ AppendOffer(t) \/ LoadRound(t) \/ StoreRound(t)
        \/ Tolerance(t)
        \/ AcceptStatus(t) \/ AcceptAgreed(t) \/ AcceptCounter(t) \/ AcceptRet(t)
        \/ FailStatus(t) \/ FailAgreed(t) \/ FailRet(t)
        \/ CounterStore(t) \/ CounterRet(t)
        \/ PopKey(t)

SpecConcKeys == InitConcKeys /\ [][NextConcKeys]_vars

\* ------------------------- concurrent requests and the call_keys table
\* Each thread serves /negotiate-round requests one after the other.  A request
\* runs get_or_create_call_id_for_session in two steps, the read of the row
\* (line 156) and, for a key with no active row, the transaction that writes a
\* new call and the mapping (lines 159-162); then the handler either closes
\* the call (a terminal decision) or leaves it open.

CallThreads == {1, 2}

\* Cap on the rows of the calls table.
MaxCalls == 3

CallMcNumbers == {<<"MC1">>, <<"MC2">>}

\* A request with no session header: the key is derived from mc_number.
Headerless == [headers |-> <<>>, client_host |-> "10.0.0.1"]

InitCalls ==
    /\ InitTables
    /\ objects = <<>>
    /\ registry = <<>>
    /\ snap = None
    /\ thr = [t \in CallThreads |-> [pc |-> "idle", mc_number |-> <<>>, call_id |-> 0]]
    /\ tol = NoTolerance

QuietTables == UNCHANGED <<engineVars, events, http, objects, registry, snap, tol>>

\* lines 154-158: sk = derive_session_key(...); row = s.get(CallKey, sk);
\* if row and row.active: return row.call_id
QueryKey(t) ==
    /\ thr[t].pc = "idle"
    /\ Cardinality(DOMAIN calls) + Cardinality({u \in CallThreads : thr[u].pc = "insert"})
           < MaxCalls
    /\ \E mc_number \in CallMcNumbers :
       \E sk \in {DeriveSessionKey(Headerless, mc_number)} :
          IF sk \in DOMAIN call_keys /\ call_keys[sk].active
              THEN thr' = [thr EXCEPT ![t] = [pc |-> "got", mc_number |-> mc_number,
                                              call_id |-> call_keys[sk].call_id]]
              ELSE thr' = [thr EXCEPT ![t] = [pc |-> "insert", mc_number |-> mc_number,
                                              call_id |-> 0]]
    /\ UNCHANGED <<call_keys, calls>> /\ QuietTables

\* lines 159-163: cid = uuid4(); ensure_call; s.merge(CallKey(sk, cid, True));
\* s.commit(); return cid.  merge writes over the row the key has by now.
InsertKey(t) ==
    /\ thr[t].pc = "insert"
    /\ \E sk \in {DeriveSessionKey(Headerless, thr[t].mc_number)} :
       \E cid \in {NewCallId(calls)} :
          /\ calls' = EnsureCall(calls, cid, thr[t].mc_number)
          /\ call_keys' = Store(call_keys, sk, [call_id |-> cid, active |-> TRUE])
          /\ thr' = [thr EXCEPT ![t].pc = "got", ![t].call_id = cid]
    /\ QuietTables

\* main.negotiate_round, a decision that is not terminal: the call stays open
KeepCall(t) ==
    /\ thr[t].pc = "got"
    /\ thr' = [thr EXCEPT ![t].pc = "idle"]
    /\ UNCHANGED <<call_keys, calls>> /\ QuietTables

\* main.negotiate_round, lines 126-132: close_call and deactivate_mappings_for_call
EndCall(t) ==
    /\ thr[t].pc = "got"
    /\ calls' = CloseCall(calls, thr[t].call_id, "unbooked", None, <<"L1">>,
                          thr[t].mc_number)
    /\ call_keys' = DeactivateMappingsForCall(call_keys, thr[t].call_id)
    /\ thr' = [thr EXCEPT ![t].pc = "idle"]
    /\ QuietTables

NextCalls == \E t \in CallThreads : QueryKey(t) \/ InsertKey(t) \/ KeepCall(t) \/ EndCall(t)

SpecCalls == InitCalls /\ [][NextCalls]_vars

\* ------------------------------------------------- properties of the engine

\* A session whose status is accepted or failed.
Closed(s) == s.status \in {"accepted", "failed"}
\* The last call was update_negotiation_session.
Updated == call.op = "update"
\* The session that call found under its key (only where one was stored).
Pre == Val(call.pre)
\* The session stored under its key after it.
Post == sessions[call.key]
\* The round_number the call found: 0 on a session it had to create.
PreRound == IF IsSome(call.pre) THEN Pre.round_number ELSE 0
\* The reference rate the call negotiated against.
Reference == IF IsSome(call.pre) THEN Pre.loadboard_rate ELSE call.loadboard_rate
Numeric == call.offer.kind = "float"
\* The offer is exactly the counter the session held.
EchoesCounter ==
    /\ Numeric /\ IsSome(call.pre) /\ IsSome(Pre.last_counter_offer)
    /\ call.offer.v = Num(Val(Pre.last_counter_offer))
\* The offer equals the last logged carrier offer.
Duplicate ==
    /\ Numeric /\ IsSome(call.pre) /\ Pre.carrier_offers # <<>>
    /\ call.offer.v = Pre.carrier_offers[Len(Pre.carrier_offers)]

\* C1: a stored session whose status is accepted or failed is left as it is by
\* every step that keeps its key, and its key leaves the map only by a
\* reset_session of that key.
C1_TerminalAbsorbing ==
    [][\A k \in DOMAIN sessions :
          Closed(sessions[k]) =>
              IF k \in DOMAIN sessions'
                  THEN sessions'[k] = sessions[k]
                  ELSE call'.op = "reset" /\ call'.key = k]_vars

\* A numeric offer has just been submitted to a session that was already terminal.
C1_Witness ==
    /\ Updated /\ Numeric /\ IsSome(call.pre)
    /\ Closed(Pre) /\ Post = Pre

\* C2, for numeric resubmissions: after a call has returned accepted or failed
\* for a key, the next numeric submission for that key returns the same status,
\* agreed_rate and round_number.
C2_IdempotentDecision ==
    [][(/\ Updated /\ ret.status \in {"accepted", "failed"}
        /\ call'.op = "update" /\ call'.key = call.key
        /\ call'.offer.kind = "float")
       => /\ ret'.status = ret.status
          /\ ret'.agreed_rate = ret.agreed_rate
          /\ ret'.round_number = ret.round_number]_vars

\* C3: a missing or non-numeric offer returns pending with the
\* needs_numeric_from_carrier message, finds its session already stored (none
\* is created), leaves it as it was and reports its round_number.
C3_NonNumericNoEffect ==
    (Updated /\ ~Numeric) =>
        /\ ret.status = "pending"
        /\ ret.message = <<"needs_numeric_from_carrier">>
        /\ IsSome(call.pre)
        /\ Post = Pre
        /\ ret.round_number = Pre.round_number

\* C6 as written: round_number never decreases and is not changed by an echo
\* of the last counter, a non-numeric input or a duplicate of the last logged
\* carrier offer.
C6_RoundOnlyOnDistinctOffer ==
    Updated =>
        /\ Post.round_number >= PreRound
        /\ (~Numeric \/ EchoesCounter \/ Duplicate) => Post.round_number = PreRound

\* C6 amended: round_number never decreases; it is left alone by a non-numeric
\* input, by an echo of the last counter, by any offer to a terminal session
\* and by the reference rate offered at round 0; every other numeric offer,
\* a duplicate of the last logged offer included, raises it by exactly one.
C6_RoundMonotone ==
    Updated =>
        /\ Post.round_number >= PreRound
        /\ (~Numeric \/ EchoesCounter) => Post.round_number = PreRound
        /\ Post.round_number # PreRound =>
              /\ Numeric
              /\ ~(IsSome(call.pre) /\ Closed(Pre))
              /\ ~(PreRound = 0 /\ call.offer.v = Num(Reference))
              /\ Post.round_number = PreRound + 1
        /\ (Duplicate /\ ~Closed(Pre) /\ ~EchoesCounter)
              => Post.round_number = PreRound + 1

\* A duplicate of the last logged offer has just raised round_number.
C6_Witness ==
    /\ Updated /\ Duplicate /\ ~Closed(Pre)
    /\ Post.round_number = PreRound + 1
    /\ Post.carrier_offers = Pre.carrier_offers

\* C7: on a non-terminal session that holds a counter, an offer equal to that
\* counter is accepted at the counter, is not appended, leaves the stored
\* round_number alone and reports max(1, round_number).
C7_EchoAcceptance ==
    (Updated /\ EchoesCounter /\ ~Closed(Pre)) =>
        /\ ret.status = "accepted"
        /\ ret.agreed_rate = Pre.last_counter_offer
        /\ Post.carrier_offers = Pre.carrier_offers
        /\ ret.carrier_offers = Pre.carrier_offers
        /\ Post.round_number = Pre.round_number
        /\ ret.round_number = Max(1, Pre.round_number)

\* The counter of a session still open has just been echoed.
C7_Witness ==
    /\ Updated /\ EchoesCounter /\ ~Closed(Pre)
    /\ ret.status = "accepted"

\* C8 as written: whatever the status of a session that holds a counter, an
\* offer equal to the counter leaves round_number alone and yields accepted at
\* the counter.
C8_EchoAnyStatus ==
    (Updated /\ EchoesCounter) =>
        /\ Post.round_number = Pre.round_number
        /\ ret.status = "accepted"
        /\ Post.status = "accepted"
        /\ ret.agreed_rate = Pre.last_counter_offer
        /\ Post.agreed_rate = Pre.last_counter_offer

\* C8 amended: an offer equal to the counter a session holds never changes
\* round_number; unless the session has already failed, the session is then
\* accepted at the counter and the call returns that; on a failed
\* session the call returns failed with no agreed_rate and the session stays
\* failed.
C8_EchoNoBump ==
    (Updated /\ EchoesCounter) =>
        /\ Post.round_number = Pre.round_number
        /\ IF Pre.status = "failed"
              THEN /\ ret.status = "failed" /\ ret.agreed_rate = None
                   /\ Post.status = "failed" /\ Post.agreed_rate = None
              ELSE /\ ret.status = "accepted" /\ Post.status = "accepted"
                   /\ ret.agreed_rate = Pre.last_counter_offer
                   /\ Post.agreed_rate = Pre.last_counter_offer

\* The counter a failed session still holds has just been offered.
C8_Witness ==
    /\ Updated /\ EchoesCounter
    /\ Pre.status = "failed" /\ ret.status = "failed"

\* C9: an accepted session holds no counter.
C9_AcceptedClearsCounter ==
    \A k \in DOMAIN sessions :
        sessions[k].status = "accepted" => sessions[k].last_counter_offer = None

\* C10: on a session at round 0 that is not terminal and holds no counter, an
\* offer equal to the reference rate is accepted at the reference rate, reports
\* round 1, appends nothing and returns no counter.
C10_InitialAcceptance ==
    (/\ Updated /\ Numeric
     /\ call.offer.v = Num(Reference)
     /\ IsSome(call.pre) =>
            /\ Pre.round_number = 0 /\ ~Closed(Pre)
            /\ Pre.last_counter_offer = None)
    => /\ ret.status = "accepted"
       /\ ret.agreed_rate = Some(Reference)
       /\ Post.status = "accepted"
       /\ Post.agreed_rate = Some(Reference)
       /\ ret.round_number = 1
       /\ Post.carrier_offers = <<>>
       /\ ret.carrier_offers = <<>>
       /\ ret.broker_counter_offer = None

\* The reference rate has just been accepted at round 0, on a session stored
\* before the call with another rate than the one the call passed.
C10_Witness ==
    /\ Updated /\ Numeric /\ IsSome(call.pre)
    /\ Pre.round_number = 0 /\ ~Closed(Pre)
    /\ call.loadboard_rate # Pre.loadboard_rate
    /\ call.offer.v = Num(Pre.loadboard_rate)
    /\ ret.status = "accepted" /\ ret.round_number = 1

\* ------------------------------------------------ properties of the handler

\* The engine run on a session of its own, from the result res on, over offs.
RECURSIVE ReplayFrom(_, _)
ReplayFrom(res, offs) ==
    IF offs = <<>> THEN res
    ELSE ReplayFrom(Negotiate(res.session, Flt(Head(offs))), Tail(offs))

\* The decision a call would get for its last offer had it a session to itself.
PrivateDecision(mc_number, load_id, loadboard_rate, offs) ==
    ReplayFrom([session |-> NewSession(mc_number, load_id, loadboard_rate, None),
                ret |-> NoDecision], offs).ret

\* The offers logged up to row i by the call of row i, for its carrier and load.
CallOffers(i) ==
    LET Same(e) == /\ e.call_id = events[i].call_id
                   /\ e.payload.mc_number = events[i].payload.mc_number
                   /\ e.payload.load_id = events[i].payload.load_id
        own == SelectSeq(SubSeq(events, 1, i), Same)
    IN  [j \in 1..Len(own) |-> own[j].payload.carrier_offer]

\* C4: the decision the handler logs for a call is the one the offers of that
\* call alone produce: nothing of another call's negotiation of the same load
\* by the same carrier shows in it.
C4_CrossCallIsolation ==
    \A i \in 1..Len(events) :
        LET p == events[i].payload
            d == PrivateDecision(p.mc_number, p.load_id, p.loadboard_rate, CallOffers(i))
        IN  /\ p.result.status = d.status
            /\ p.result.agreed_rate = d.agreed_rate
            /\ p.result.round_number = d.round_number
            /\ p.result.broker_counter_offer = d.broker_counter_offer

\* ------------------------------------------- properties of concurrent calls

\* What two calls made one after the other leave: the first call's decision, the
\* second call's decision, and the stored session.
Sequential(first, second) ==
    LET start == IF snap = None THEN <<>> ELSE [k \in {ConcKey} |-> Val(snap)]
        found == GetOrCreateSession(start, ConcMc, ConcLoad, ConcRate, None)[ConcKey]
        one == Negotiate(found, first)
        two == Negotiate(one.session, second)
    IN  [first |-> one.ret, second |-> two.ret, session |-> two.session]

BothReturned == \A t \in Threads : thr[t].pc = "done"

\* C5: when two concurrent calls on one key have both returned, the decisions
\* they returned and the session left under the key are those of the two calls
\* run one after the other, in one of the two orders.
C5_PerKeySerialization ==
    BothReturned =>
        \/ \E seq \in {Sequential(thr[1].offer, thr[2].offer)} :
              /\ thr[1].ret = seq.first
              /\ thr[2].ret = seq.second
              /\ objects[registry[ConcKey]] = seq.session
        \/ \E seq \in {Sequential(thr[2].offer, thr[1].offer)} :
              /\ thr[2].ret = seq.first
              /\ thr[1].ret = seq.second
              /\ objects[registry[ConcKey]] = seq.session

\* ------------------------------------------- properties of the new-offer path

\* The offer is within EPS of the counter the session held.
NearCounter ==
    /\ IsSome(call.pre) /\ IsSome(Pre.last_counter_offer)
    /\ Near(call.offer.v, Num(Val(Pre.last_counter_offer)))
\* The offer is within EPS of the reference rate, on a session at round 0.
NearReferenceAtZero == PreRound = 0 /\ Near(call.offer.v, Num(Reference))
\* The last call took a numeric offer on a session still open, and the offer was
\* neither the counter nor the round-0 reference rate.
OnNewOfferPath ==
    /\ Updated /\ Numeric
    /\ ~(IsSome(call.pre) /\ Closed(Pre))
    /\ ~NearCounter /\ ~NearReferenceAtZero
Clamp(n) == Max(1, Min(n, 3))
\* round(reference_rate * (1 + 0.05 * r), 2) for the round the call opened
Ceiling == Round2(Reference * (100 + 5 * Clamp(PreRound + 1)), 100)
\* round(reference_rate * 1.15, 2)
Cap == Round2(Reference * 115, 100)
OfferWithin == ~call.offer.v.nan /\ call.offer.v.v <= Ceiling
OfferExceeds == ~call.offer.v.nan /\ call.offer.v.v > Ceiling

\* C11: a numeric offer on the new-offer path raises round_number to n, and if
\* it is at most round(reference_rate*(1+0.05*clamp(n,1,3)), 2) the decision is
\* accepted, with agreed_rate equal to the offer and no broker_counter_offer.
C11_NewOfferAcceptance ==
    OnNewOfferPath =>
        /\ Post.round_number = PreRound + 1
        /\ ret.max_acceptable = Ceiling
        /\ OfferWithin =>
              /\ ret.status = "accepted" /\ Post.status = "accepted"
              /\ ret.round_number = Clamp(PreRound + 1)
              /\ ret.agreed_rate = Some(call.offer.v.v)
              /\ Post.agreed_rate = Some(call.offer.v.v)
              /\ ret.broker_counter_offer = None

\* C12: on the new-offer path an offer above the round's ceiling with r < 3 is
\* answered ongoing, with the ceiling as broker_counter_offer and as the
\* session's last_counter_offer and no agreed_rate; and no other call returns
\* status ongoing.
C12_CounterRule ==
    Updated =>
        /\ (OnNewOfferPath /\ OfferExceeds /\ Clamp(PreRound + 1) < 3) =>
              /\ ret.status = "ongoing"
              /\ ret.broker_counter_offer = Some(Ceiling)
              /\ ret.agreed_rate = None
              /\ Post.last_counter_offer = Some(Ceiling)
        /\ ret.status = "ongoing" =>
              OnNewOfferPath /\ OfferExceeds /\ Clamp(PreRound + 1) < 3

\* The decisions of update_negotiation_session for the offers offs, one after
\* the other, on a session created with the reference rate loadboard_rate.
Replies(loadboard_rate, offs) ==
    [i \in 1..Len(offs) |->
        ReplayFrom([session |-> NewSession(<<"MC1">>, <<"L1">>, loadboard_rate, None),
                    ret |-> NoDecision], SubSeq(offs, 1, i)).ret]

\* Reference 1000 and the offers 1300, 1300, 1400: counter 1050 at round 1,
\* counter 1100 at round 2, failed at round 3 under a ceiling and a cap of 1150.
FailureScenario ==
    LET d == Replies(1000000, <<Num(1300000), Num(1300000), Num(1400000)>>)
    IN  /\ [i \in 1..3 |-> d[i].status] = <<"ongoing", "ongoing", "failed">>
        /\ [i \in 1..3 |-> d[i].round_number] = <<1, 2, 3>>
        /\ [i \in 1..3 |-> d[i].max_acceptable] = <<1050000, 1100000, 1150000>>
        /\ d[1].broker_counter_offer = Some(1050000)
        /\ d[2].broker_counter_offer = Some(1100000)
        /\ d[3].agreed_rate = None
        /\ d[3].hard_cap = 1150000

\* C13: on the new-offer path an offer above the ceiling (by more than EPS) at
\* r >= 3 fails the session: status failed, no agreed_rate, last_counter_offer
\* as it was before the call; and the offers 1300, 1300, 1400 against 1000 run
\* as FailureScenario says.
C13_FailureRule ==
    /\ (OnNewOfferPath /\ OfferExceeds /\ Clamp(PreRound + 1) >= 3) =>
          /\ ret.status = "failed" /\ Post.status = "failed"
          /\ ret.agreed_rate = None /\ Post.agreed_rate = None
          /\ Post.last_counter_offer = Pre.last_counter_offer
          /\ ret.max_acceptable = Ceiling
          /\ ret.hard_cap = Cap
    /\ FailureScenario

\* A third over-tolerance offer has just failed a session that keeps its counter.
C13_Witness ==
    /\ OnNewOfferPath /\ OfferExceeds /\ Clamp(PreRound + 1) >= 3
    /\ ret.status = "failed" /\ IsSome(Post.last_counter_offer)

\* ------------------------------------------- invariants of a stored session

\* C14: a stored session has an agreed_rate exactly when its status is accepted.
C14_AgreedIffAccepted ==
    \A k \in DOMAIN sessions :
        IsSome(sessions[k].agreed_rate) <=> sessions[k].status = "accepted"

\* An offer within the round's ceiling has just been accepted and priced.
C14_Witness ==
    /\ OnNewOfferPath /\ OfferWithin
    /\ Post.status = "accepted" /\ IsSome(Post.agreed_rate)

\* C15: no two neighbours in a session's carrier_offers are equal or within
\* EPS, and a numeric offer equal to the last logged one is not logged again.
C15_NoConsecutiveDuplicates ==
    /\ \A k \in DOMAIN sessions :
          \A i \in 1..(Len(sessions[k].carrier_offers) - 1) :
              /\ sessions[k].carrier_offers[i] # sessions[k].carrier_offers[i + 1]
              /\ ~Near(sessions[k].carrier_offers[i], sessions[k].carrier_offers[i + 1])
    /\ (Updated /\ Duplicate) => Post.carrier_offers = Pre.carrier_offers

\* The last logged offer has just been made again on the new-offer path and
\* countered: the log has not grown.
C15_Witness ==
    /\ OnNewOfferPath /\ Duplicate
    /\ ret.status = "ongoing"
    /\ Len(Post.carrier_offers) = Len(Pre.carrier_offers)

\* C16: a call that finds a session stored under its key leaves the session's
\* reference rate as it was, whatever rate the call passes, and the ceiling,
\* the hard cap and the whole decision are those the stored rate gives.
C16_ReferenceImmutable ==
    (Updated /\ IsSome(call.pre)) =>
        /\ Post.loadboard_rate = Pre.loadboard_rate
        /\ ret.hard_cap = Round2(Pre.loadboard_rate * 115, 100)
        /\ ret.max_acceptable \in
              {Round2(Pre.loadboard_rate * (100 + 5 * r), 100) : r \in 1..3}
        /\ ret = Negotiate(Pre, call.offer).ret
        /\ Post = Negotiate(Pre, call.offer).session

\* A call that passed another rate than the stored one has just been countered
\* at the ceiling of the stored rate.
C16_Witness ==
    /\ Updated /\ IsSome(call.pre)
    /\ call.loadboard_rate # Pre.loadboard_rate
    /\ ret.status = "ongoing"
    /\ ret.broker_counter_offer = Some(Round2(Pre.loadboard_rate * 105, 100))

\* ------------------------------------------------ properties of session keys

\* C17: a submission made under one session_id leaves what is stored for the
\* same carrier and load under every other session_id as it was.
C17_SessionIsolation ==
    [][call'.op = "update" =>
          \A other \in KeySessionIds \ {call'.session_id} :
              Lookup(sessions', SessionKey(call'.mc_number, call'.load_id, other))
                  = Lookup(sessions, SessionKey(call'.mc_number, call'.load_id, other))]_vars

\* C18: reset_session takes the session of its key out of the map and leaves
\* the rest of the map as it was (all of it when the key is absent), and the
\* update that follows a reset of its key finds no session and works on a new
\* one: round 0, no offers, no counter, status ongoing, the rate it passed.
C18_ResetRemovesOneSession ==
    [][/\ call'.op = "reset" =>
              /\ DOMAIN sessions' = DOMAIN sessions \ {call'.key}
              /\ \A k \in DOMAIN sessions' : sessions'[k] = sessions[k]
       /\ (call.op = "reset" /\ call'.op = "update" /\ call'.key = call.key) =>
              \E fresh \in {NewSession(call'.mc_number, call'.load_id,
                                       call'.loadboard_rate, call'.session_id)} :
                  /\ call'.pre = None
                  /\ fresh.round_number = 0 /\ fresh.carrier_offers = <<>>
                  /\ fresh.last_counter_offer = None /\ fresh.status = "ongoing"
                  /\ sessions'[call'.key] = Negotiate(fresh, call'.offer).session
                  /\ ret' = Negotiate(fresh, call'.offer).ret
                  /\ sessions'[call'.key].loadboard_rate = call'.loadboard_rate]_vars

\* reset_session has just removed a session and another session is still stored.
C18_Witness ==
    /\ call.op = "reset" /\ IsSome(call.pre)
    /\ call.key \notin DOMAIN sessions
    /\ sessions # <<>>

\* ------------------------------------------------ properties of the ceilings

\* The ceilings computed so far for the rounds 1, 2 and 3.
Computed == DOMAIN tol.max_acceptable \cap 1..3
\* round(R * (1 + 0.05 * r), 2) in mills
Formula(r) == Round2(tol.base * (100 + 5 * r), 100)

\* C19 as written: for every rate the ceiling of round r is
\* round(R*(1+0.05*r), 2), and it is strictly larger at a later round.
C19_StrictlyIncreasing ==
    /\ \A r \in Computed : tol.max_acceptable[r] = Formula(r)
    /\ \A r1, r2 \in Computed :
          r1 < r2 => tol.max_acceptable[r1] < tol.max_acceptable[r2]

\* C19 amended: for every rate the ceiling of round r is round(R*(1+0.05*r), 2)
\* and never smaller at a later round; it is strictly larger at a later round
\* when 5% of the rate is more than one cent.
C19_NonDecreasing ==
    /\ \A r \in Computed : tol.max_acceptable[r] = Formula(r)
    /\ \A r1, r2 \in Computed :
          r1 < r2 =>
              /\ tol.max_acceptable[r1] <= tol.max_acceptable[r2]
              /\ 5 * tol.base > 100 * Cent =>
                    tol.max_acceptable[r1] < tol.max_acceptable[r2]

\* The three ceilings of a rate of a few cents have been computed and the first
\* and the last are the same amount.
C19_Witness ==
    /\ Computed = 1..3
    /\ 5 * tol.base <= 100 * Cent
    /\ tol.max_acceptable[1] = tol.max_acceptable[3]

\* ------------------------------------------------ properties of the hard cap

\* round(R * 1.15, 2) for the stored session s
CapOf(s) == Round2(s.loadboard_rate * 115, 100)
\* No counter, stored or returned, is above the hard cap, and the hard cap
\* returned is round(R * 1.15, 2).
CountersUnderCap ==
    /\ \A k \in DOMAIN sessions :
          IsSome(sessions[k].last_counter_offer) =>
              Val(sessions[k].last_counter_offer) <= CapOf(sessions[k])
    /\ Updated =>
          /\ ret.hard_cap = CapOf(Post)
          /\ IsSome(ret.broker_counter_offer) =>
                Val(ret.broker_counter_offer) <= ret.hard_cap

\* C20 as written: the agreed_rate of an accepted session is at most
\* round(R*1.15, 2), and so is every counter.
C20_HardCapBoundsDeals ==
    /\ CountersUnderCap
    /\ \A k \in DOMAIN sessions :
          sessions[k].status = "accepted" =>
              Val(sessions[k].agreed_rate) <= CapOf(sessions[k])

\* C20 amended: every counter is at most the hard cap round(R*1.15, 2); the
\* agreed_rate of an accepted session is at most the larger of the hard cap
\* and R, and at most the hard cap when R is a whole number of cents.
C20_HardCapOrReference ==
    /\ CountersUnderCap
    /\ \A k \in DOMAIN sessions :
          sessions[k].status = "accepted" =>
              /\ Val(sessions[k].agreed_rate)
                    <= Max(CapOf(sessions[k]), sessions[k].loadboard_rate)
              /\ sessions[k].loadboard_rate % Cent = 0 =>
                    Val(sessions[k].agreed_rate) <= CapOf(sessions[k])

\* A reference rate with a fraction of a cent has just been accepted at round
\* 0, at the rate itself, which is above the hard cap.
C20_Witness ==
    /\ Updated /\ Post.status = "accepted"
    /\ Post.loadboard_rate % Cent # 0
    /\ Val(Post.agreed_rate) = Post.loadboard_rate
    /\ Val(Post.agreed_rate) > ret.hard_cap

\* ------------------------------------------------ properties of the guards

\* C21: a missing or non-numeric offer to a session that is accepted or failed
\* returns pending, with no agreed_rate and the needs_numeric_from_carrier
\* message, and the stored session stays as it was.
C21_GuardBeforeTerminal ==
    (Updated /\ ~Numeric /\ IsSome(call.pre) /\ Closed(Pre)) =>
        /\ ret.status = "pending"
        /\ ret.agreed_rate = None
        /\ ret.message = <<"needs_numeric_from_carrier">>
        /\ Post = Pre

\* C26: a numeric submission answered accepted, ongoing or failed reports the
\* round_number the session holds after the call.
C26_ReportedRoundIsStored ==
    (Updated /\ Numeric /\ ret.status \in {"accepted", "ongoing", "failed"}) =>
        ret.round_number = Post.round_number

\* ------------------------------------------------ properties of the rounds

\* C27: with offers that are finite numbers (or not numbers at all), a numeric
\* submission to an open session closes it or raises round_number by exactly
\* one; round_number stays within 0..3, a session at round 3 is closed, and
\* carrier_offers is never longer than round_number.
C27_BoundedNegotiation ==
    /\ \A k \in DOMAIN sessions :
          /\ sessions[k].round_number \in 0..3
          /\ sessions[k].round_number = 3 => Closed(sessions[k])
          /\ Len(sessions[k].carrier_offers) <= sessions[k].round_number
    /\ (Updated /\ Numeric /\ ~(IsSome(call.pre) /\ Closed(Pre))) =>
          Closed(Post) \/ Post.round_number = PreRound + 1

\* A third numeric offer has just closed a session at round 3.
C27_Witness ==
    /\ Updated /\ Numeric /\ IsSome(call.pre)
    /\ ~Closed(Pre) /\ Pre.round_number = 2
    /\ Closed(Post) /\ Post.round_number = 3

\* C28: a failed session is at round 3, has no agreed_rate, and holds the
\* round-2 ceiling round(reference_rate*1.10, 2) as last_counter_offer.
C28_FailedShape ==
    \A k \in DOMAIN sessions :
        sessions[k].status = "failed" =>
            /\ sessions[k].round_number = 3
            /\ sessions[k].agreed_rate = None
            /\ sessions[k].last_counter_offer
                  = Some(Round2(sessions[k].loadboard_rate * 110, 100))

\* ------------------------------------ properties of the handler's bookkeeping

\* Some active row of call_keys maps to call_id.
Mapped(call_id) == \E k \in DOMAIN call_keys :
                        call_keys[k].call_id = call_id /\ call_keys[k].active

\* C24: after a request the handler served, the call is closed exactly when the
\* decision is terminal: accepted closes it with outcome accepted and the
\* decision's agreed_rate, failed closes it with outcome unbooked, both leave no
\* active mapping to the call; ongoing and pending leave the call open and
\* its mapping active.
C24_ClosesOnTerminal ==
    http.status = 200 =>
        /\ http.call_id \in DOMAIN calls
        /\ http.body.status = "accepted" =>
              /\ calls[http.call_id].ended
              /\ calls[http.call_id].outcome = Some("accepted")
              /\ calls[http.call_id].agreed_rate = http.body.agreed_rate
              /\ ~Mapped(http.call_id)
        /\ http.body.status = "failed" =>
              /\ calls[http.call_id].ended
              /\ calls[http.call_id].outcome = Some("unbooked")
              /\ ~Mapped(http.call_id)
        /\ http.body.status \in {"ongoing", "pending"} =>
              /\ ~calls[http.call_id].ended
              /\ calls[http.call_id].outcome = None
              /\ Mapped(http.call_id)

\* A request has been answered with a failed decision, after ongoing ones on
\* the same call.
C24_Witness ==
    /\ http.status = 200
    /\ http.body.status = "failed"
    /\ calls[http.call_id].ended
    /\ Len(events) = 3
    /\ \A i \in 1..2 : events[i].call_id = http.call_id
                        /\ events[i].payload.result.status = "ongoing"

\* ------------------------------------- properties of concurrent acceptances

\* The threads that returned a decision with status accepted.
Accepting == {t \in Threads : thr[t].pc = "done" /\ thr[t].ret.status = "accepted"}

\* C22: the accepted decisions returned for one key carry one agreed_rate, and
\* once both calls have returned it is the agreed_rate of the stored session.
C22_OneAgreedPrice ==
    /\ \A t \in Accepting : \A u \in Accepting :
          thr[t].ret.agreed_rate = thr[u].ret.agreed_rate
    /\ BothReturned =>
          \A t \in Accepting :
              thr[t].ret.agreed_rate = objects[registry[ConcKey]].agreed_rate

\* ----------------------------------------------- properties of the map key

\* The identity triple a session was built with, and the one of the last call.
TripleOf(s) == <<s.session_id, s.mc_number, s.load_id>>
CallTriple == <<call.session_id, call.mc_number, call.load_id>>

\* C29: two identity triples with one map key are equal: the session an update
\* finds under its key was built for the update's own triple.
C29_KeyInjective ==
    (Updated /\ IsSome(call.pre)) => TripleOf(Pre) = CallTriple

\* ------------------------------------------ properties of the call identity

\* C25: two requests of one session key that hold a call_id at the same time
\* hold the same one, unless one of the two calls has been closed and its
\* mapping deactivated since it was handed out.
C25_StableCallId ==
    \A t \in CallThreads : \A u \in CallThreads :
        (/\ thr[t].pc = "got" /\ thr[u].pc = "got"
         /\ thr[t].mc_number = thr[u].mc_number
         /\ ~calls[thr[t].call_id].ended
         /\ ~calls[thr[u].call_id].ended)
            => thr[t].call_id = thr[u].call_id

\* ------------------------------------------ properties of calls on two keys

\* The session stored under key k, None when the key has none.
Stored(reg, objs, k) == IF k \in DOMAIN reg THEN Some(objs[reg[k]]) ELSE None

\* C23: a step of a call for key k, an update or a reset, leaves the session
\* stored under every other key as it was, whatever the other thread has done.
C23_KeyIndependence ==
    [][\A t \in Threads :
          thr'[t] # thr[t] =>
              \A k \in {ConcKey, OtherKey} \ {ThreadKey(t)} :
                  Stored(registry', objects', k) = Stored(registry, objects, k)]_vars

\* Both calls have returned: an update has created and accepted a session on
\* one key, a reset has removed the session of the other key.
C23_Witness ==
    /\ \A t \in Threads : thr[t].pc = "done"
    /\ thr[1].ret.status = "accepted"
    /\ Stored(registry, objects, ConcKey) # None
    /\ Len(objects) = 2
    /\ thr[2].ret = NoDecision
    /\ Stored(registry, objects, OtherKey) = None

====
